---- MODULE Spec2Model ----
(***************************************************************************)
(* A model of the activetrail-sdk transport clients and resource modules.  *)
(*                                                                         *)
(*   Spec      the two transport clients of active_trail/client.py, each   *)
(*             used for one call at a time: AsyncActiveTrailClient         *)
(*             (get/post/put/delete, setup, close) and ActiveTrailClient   *)
(*             (request() over requests.Session; get/post/put/delete over  *)
(*             _run_async and the async client). Every verb, every method, *)
(*             every outcome of the HTTP attempt.                          *)
(*   SpecGate  one AsyncActiveTrailClient used by NumTasks concurrent      *)
(*             coroutines on one event loop: the admission gate.           *)
(*             SpecGateLive is SpecGate on an event loop that keeps        *)
(*             running (fairness), for the liveness of admission.          *)
(*   SpecClient one ActiveTrailClient object: its fields, its session      *)
(*             headers and its resource-module attributes, read between    *)
(*             calls through both dispatch paths.                          *)
(*   SpecApi   the resource modules (SMS campaigns, groups, contacts, ...) *)
(*             over a client whose calls return or raise, and the          *)
(*             validators of the SMS DTOs.                                 *)
(*   SpecDto   the DTO classes: objects are constructed, serialized with   *)
(*             to_dict and parsed back with from_dict.                     *)
(***************************************************************************)
EXTENDS Integers, Sequences, FiniteSets, TLC

\* ------------------------------------------------------------------ bounds
\* Number of coroutines that use one AsyncActiveTrailClient concurrently.
NumTasks == 2
\* Largest max_concurrent an AsyncActiveTrailClient is constructed with.
MaxConcurrent == 1
\* How many times setup() may create a session (and a semaphore) in one run.
MaxSessions == 2

\* ------------------------------------------------------- program constants
\* max_concurrent of the AsyncActiveTrailClient that ActiveTrailClient builds
DefaultMaxConcurrent == 10

Tasks == 1..NumTasks
Gens == 1..MaxSessions

\* The verbs of get/post/put/delete.
Verbs == {"GET", "POST", "PUT", "DELETE"}
\* ActiveTrailClient.request takes the method as a string: any string may be given.
Methods == Verbs \cup {"PATCH"}

\* Response statuses a server may answer with (one or more of each class the
\* code distinguishes).
Statuses == {200, 302, 400, 401, 403, 404, 429, 500, 599}

\* What a single HTTP attempt ends with: a response (with its status), a
\* connection failure, or the expiry of the request timeout (status 0: none).
Outcomes ==
    [cause : {"response"}, status : Statuses]
        \cup [cause : {"connection", "timeout"}, status : {0}]

\* The exception classes of active_trail/exceptions.py.
ActiveTrailErrors ==
    {"ActiveTrailError", "AuthenticationError", "RateLimitError", "ValidationError",
     "NotFoundError", "ServerError", "NetworkError"}

VARIABLES
    client,     \* which client class the program constructed
    maxc,       \* AsyncActiveTrailClient.max_concurrent
    session,    \* AsyncActiveTrailClient.session: 0 is None, g the g-th session created
    closed,     \* the sessions on which ClientSession.close() was called
    semaphore,  \* AsyncActiveTrailClient._semaphore: 0 is None, g the g-th created
    permits,    \* permits[g]: the value of the g-th semaphore
    created,    \* number of sessions (and semaphores) created so far
    staleLoop,  \* the event loop the session was created on has been closed
    tpc,        \* tpc[t]: where coroutine t is
    tverb,      \* tverb[t]: the verb of t's call
    tsem,       \* tsem[t]: the semaphore t entered `async with` on
    tsess,      \* tsess[t]: the session t dispatched on (or is closing)
    attempts,   \* attempts[t]: HTTP request attempts of t's current call
    spc,        \* ActiveTrailClient.request: "idle" or "sent"
    smethod,    \* the method of the request() call in progress
    sattempts,  \* HTTP request attempts of the request() call in progress
    last,       \* the call that ended last: how it ended
    rop,        \* the resource-module operation in progress (or ended last)
    rinput,     \* its input
    rpc,        \* "idle", "calling" (inside a client call) or "done"
    ridx,       \* batch operations: the position in the contact list
    rcalls,     \* the client calls the operation has issued, in order
    rerror,     \* the exception a client call raised inside the operation
    rresult,    \* what the operation gave its caller
    dpc,        \* DTOs: "idle", "built", "serialized", "parsed" or "posted"
    dto,        \* the DTO object the application constructed
    wire,       \* what dto.to_dict() returned
    given,      \* the mapping handed to from_dict
    parsed,     \* what from_dict returned or raised
    posted,     \* the json argument ContactsAPI.create gave client.post
    ctor,       \* the arguments the client was constructed with
    api_key,    \* client.api_key
    timeout,    \* client.timeout
    headers,    \* ActiveTrailClient: client.session.headers, as set by the SDK
    handles,    \* ActiveTrailClient: the resource-module attributes of the client
    constructions, \* how many times each resource-module class was constructed
    fetched     \* the last read of a resource-module attribute

vars == <<client, maxc, session, closed, semaphore, permits, created, staleLoop,
          tpc, tverb, tsem, tsess, attempts, spc, smethod, sattempts, last,
          rop, rinput, rpc, ridx, rcalls, rerror, rresult,
          dpc, dto, wire, given, parsed, posted,
          ctor, api_key, timeout, headers, handles, constructions, fetched>>

asyncVars == <<maxc, session, closed, semaphore, permits, created, staleLoop,
               tpc, tverb, tsem, tsess, attempts>>

syncVars == <<spc, smethod, sattempts>>

apiVars == <<rop, rinput, rpc, ridx, rcalls, rerror, rresult>>

dtoVars == <<dpc, dto, wire, given, parsed, posted>>

clientVars == <<client, asyncVars, syncVars, last>>

objVars == <<ctor, api_key, timeout, headers, handles, constructions, fetched>>

NoCall == [path |-> "none", verb |-> "none", cause |-> "none", status |-> 0,
           body |-> "none", raised |-> "none", attempts |-> 0, returned |-> "none"]

\* ------------------------------------------------------------ pure helpers

\* response.raise_for_status(): requests and aiohttp both raise for 400..599.
RaisesForStatus(status) == status >= 400

\* The except clauses without the 429 branch.
AsyncStatusErrorNo429(status) ==
    IF status = 401 THEN "AuthenticationError" ELSE "ActiveTrailError"

\* AsyncActiveTrailClient._request, the except clauses: the exception raised
\* for an aiohttp.ClientResponseError with this status.
AsyncStatusError(status) ==
    IF status = 401 THEN "AuthenticationError"
    ELSE IF status = 429 THEN "RateLimitError"
    ELSE "ActiveTrailError"

\* Except clauses that tell a missing resource apart.
SyncStatusErrorNotFound(status) ==
    IF status = 401 THEN "AuthenticationError"
    ELSE IF status = 429 THEN "RateLimitError"
    ELSE IF status = 404 THEN "NotFoundError"
    ELSE "ActiveTrailError"

\* ActiveTrailClient.request, the except clauses: the exception raised for a
\* requests.exceptions.HTTPError with this status.
SyncStatusError(status) ==
    IF status = 401 THEN "AuthenticationError"
    ELSE IF status = 429 THEN "RateLimitError"
    ELSE "ActiveTrailError"

\* What aiohttp raises when the total timeout expires: ServerTimeoutError (a
\* ClientError, which _request wraps) while connecting, asyncio.TimeoutError
\* (not a ClientError, which _request does not catch) while awaiting the response.
AsyncTimeoutRaises == {"ActiveTrailError", "TimeoutError"}

\* The exceptions an attempt of the async client that ended with outcome o can
\* surface as ("none": the call returns the decoded body).
AsyncRaised(o) ==
    IF o.cause = "connection" THEN {"ActiveTrailError"}
    ELSE IF o.cause = "timeout" THEN AsyncTimeoutRaises
    ELSE IF RaisesForStatus(o.status) THEN {AsyncStatusError(o.status)}
    ELSE {"none"}

\* The exception ActiveTrailClient.request surfaces for an attempt that ended
\* with outcome o: requests' ConnectionError and Timeout are RequestExceptions.
SyncRaised(o) ==
    IF o.cause \in {"connection", "timeout"} THEN "ActiveTrailError"
    ELSE IF RaisesForStatus(o.status) THEN SyncStatusError(o.status)
    ELSE "none"

\* A retry loop _request does not have: a failed attempt is tried once more.
AsyncRetryOnFailure(o, n) == o.cause # "response" /\ n < 2

\* AsyncActiveTrailClient._request has no retry loop: the attempt that just
\* ended with outcome o (the n-th of the call) is never followed by another.
AsyncShouldRetry(o, n) == FALSE

\* ActiveTrailClient.request has no retry loop either.
SyncShouldRetry(o, n) == FALSE


\* ------------------------------------------------ AsyncActiveTrailClient

\* AsyncActiveTrailClient.setup creates a session and a semaphore only when
\* self.session is None; it has no suspension point, so it runs atomically.
\* The values of the client's fields after it:
SetupSession == IF session = 0 THEN created + 1 ELSE session

SetupSemaphore == IF session = 0 THEN created + 1 ELSE semaphore

SetupPermits == IF session = 0 THEN [permits EXCEPT ![created + 1] = maxc] ELSE permits

SetupCreated == IF session = 0 THEN created + 1 ELSE created

SetupStale == IF session = 0 THEN FALSE ELSE staleLoop

\* The model creates at most MaxSessions sessions.
CanSetup == session # 0 \/ created < MaxSessions

\* self.session.request(...) when self.session is s: how the dispatch starts.
\* None has no attribute `request` (AttributeError); aiohttp refuses a closed
\* session (RuntimeError); a session whose event loop has been closed cannot
\* arm its timeout on that loop (RuntimeError), or is used all the same.
\* "sent": the HTTP request goes out.
DispatchStarts(s, isClosed, stale) ==
    IF s = 0 THEN {"AttributeError"}
    ELSE IF isClosed THEN {"RuntimeError"}
    ELSE IF stale THEN {"RuntimeError", "sent"}
    ELSE {"sent"}

\* ActiveTrailClient._run_async closes its event loop when the coroutine ends.
LoopClosesAfterCall == client = "ActiveTrailClient"

\* A response that raise_for_status lets through: its Content-Type is
\* application/json or something else, and its body is empty or not. A
\* non-empty body sent as application/json is a JSON document.
Contents == {"json", "json, empty", "other", "other, empty"}

\* ActiveTrailClient.request: response.json() when response.content is
\* non-empty and the Content-Type starts with application/json, otherwise
\* response.content (bytes).
SyncReturns(content) == IF content = "json" THEN "decoded json" ELSE "bytes"

\* AsyncActiveTrailClient._request: `await response.json()` when
\* response.content_type is application/json (aiohttp gives None for an empty
\* body), otherwise `await response.text()` (a str).
AsyncReturns(content) ==
    IF content = "json" THEN "decoded json"
    ELSE IF content = "json, empty" THEN "None"
    ELSE "str"

\* What the response of an attempt that ended with outcome o can carry.
AsyncContents(o) ==
    IF o.cause = "response" /\ ~RaisesForStatus(o.status) THEN Contents ELSE {"none"}

Ended(path, verb, o, body, raised, n) ==
    [path |-> path, verb |-> verb, cause |-> o.cause, status |-> o.status,
     body |-> body, raised |-> raised, attempts |-> n,
     returned |-> IF raised # "none" \/ o.cause # "response" THEN "none"
                  ELSE IF path = "request" THEN SyncReturns(body)
                  ELSE AsyncReturns(body)]

NoOutcome == [cause |-> "none", status |-> 0]

\* Coroutine t enters `async with self._semaphore` on semaphore sem (value
\* perm[sem] > 0) and dispatches on session s: either the request is sent and
\* t awaits the response holding a permit, or the dispatch raises at once, the
\* permit is released on the way out and the exception reaches the caller.
Dispatch(t, v, sem, perm, s, stale) ==
    \E d \in DispatchStarts(s, s \in closed, stale) :
        IF d = "sent"
        THEN /\ permits' = [perm EXCEPT ![sem] = @ - 1]
             /\ tpc' = [tpc EXCEPT ![t] = "inflight"]
             /\ tverb' = [tverb EXCEPT ![t] = v]
             /\ tsem' = [tsem EXCEPT ![t] = sem]
             /\ tsess' = [tsess EXCEPT ![t] = s]
             /\ attempts' = [attempts EXCEPT ![t] = 1]
             /\ staleLoop' = stale
             /\ last' = last
        ELSE /\ permits' = perm
             /\ tpc' = [tpc EXCEPT ![t] = "idle"]
             /\ tverb' = [tverb EXCEPT ![t] = "none"]
             /\ tsem' = [tsem EXCEPT ![t] = 0]
             /\ tsess' = [tsess EXCEPT ![t] = 0]
             /\ attempts' = [attempts EXCEPT ![t] = 0]
             /\ staleLoop' = (stale \/ (LoopClosesAfterCall /\ s # 0))
             /\ last' = Ended("async", v, NoOutcome, "none", d, 0)

\* AsyncActiveTrailClient.get/post/put/delete -> _request, up to its first
\* suspension point: setup(), then the semaphore; with a permit free the
\* request is dispatched at once, otherwise t waits for a permit.
\* ActiveTrailClient.get/post/put/delete run the same coroutine, alone, on a
\* new event loop (_run_async).
Call(t, v) ==
    /\ tpc[t] = "idle"
    /\ spc = "idle"
    /\ client = "ActiveTrailClient" => t = 1
    /\ CanSetup
    /\ session' = SetupSession
    /\ semaphore' = SetupSemaphore
    /\ created' = SetupCreated
    /\ IF SetupPermits[SetupSemaphore] > 0
       THEN Dispatch(t, v, SetupSemaphore, SetupPermits, SetupSession, SetupStale)
       ELSE /\ permits' = SetupPermits
            /\ tpc' = [tpc EXCEPT ![t] = "acquire"]
            /\ tverb' = [tverb EXCEPT ![t] = v]
            /\ tsem' = [tsem EXCEPT ![t] = SetupSemaphore]
            /\ staleLoop' = SetupStale
            /\ UNCHANGED <<tsess, attempts, last>>
    /\ UNCHANGED <<dtoVars, objVars, apiVars, client, maxc, closed, syncVars>>

\* A coroutine waiting in `async with self._semaphore` gets a permit and
\* dispatches on whatever self.session is by now.
Admit(t) ==
    /\ tpc[t] = "acquire"
    /\ permits[tsem[t]] > 0
    /\ Dispatch(t, tverb[t], tsem[t], permits, session, staleLoop)
    /\ UNCHANGED <<dtoVars, objVars, apiVars, client, maxc, session, closed, semaphore, created, syncVars>>

\* A gate that gives the permit back only when the block returns a value.
ReleasedOnReturn(perm, sem, r) ==
    IF r = "none" THEN [perm EXCEPT ![sem] = @ + 1] ELSE perm

\* `async with self._semaphore`: the permit taken on semaphore sem is given
\* back when the block is left, whether by a return (r is "none") or by the
\* exception r.
ReleasedOnExit(perm, sem, r) == [perm EXCEPT ![sem] = @ + 1]

\* The attempt of coroutine t ends with outcome o: raise_for_status, the
\* except clauses, and the exit of `async with` (which releases the permit).
Complete(t, o) ==
    /\ tpc[t] = "inflight"
    /\ IF AsyncShouldRetry(o, attempts[t])
       THEN /\ attempts' = [attempts EXCEPT ![t] = @ + 1]
            /\ UNCHANGED <<permits, tpc, tverb, tsem, tsess, staleLoop, last>>
       ELSE /\ \E r \in AsyncRaised(o), b \in AsyncContents(o) :
                 /\ last' = Ended("async", tverb[t], o, b, r, attempts[t])
                 /\ permits' = ReleasedOnExit(permits, tsem[t], r)
            /\ tpc' = [tpc EXCEPT ![t] = "idle"]
            /\ tverb' = [tverb EXCEPT ![t] = "none"]
            /\ tsem' = [tsem EXCEPT ![t] = 0]
            /\ tsess' = [tsess EXCEPT ![t] = 0]
            /\ attempts' = [attempts EXCEPT ![t] = 0]
            /\ staleLoop' = (staleLoop \/ LoopClosesAfterCall)
    /\ UNCHANGED <<dtoVars, objVars, apiVars, client, maxc, session, closed, semaphore, created, syncVars>>

\* AsyncActiveTrailClient.setup() called by the application itself (with a
\* session in place it changes nothing).
setup(t) ==
    /\ client = "AsyncActiveTrailClient"
    /\ tpc[t] = "idle"
    /\ session = 0
    /\ CanSetup
    /\ session' = SetupSession
    /\ semaphore' = SetupSemaphore
    /\ created' = SetupCreated
    /\ permits' = SetupPermits
    /\ staleLoop' = SetupStale
    /\ UNCHANGED <<dtoVars, objVars, apiVars, client, maxc, closed, tpc, tverb, tsem, tsess, attempts, syncVars, last>>

\* AsyncActiveTrailClient.close(), up to `await self.session.close()`: the
\* session is closed while self.session still refers to it (without a session
\* close() changes nothing).
closeBegin(t) ==
    /\ client = "AsyncActiveTrailClient"
    /\ tpc[t] = "idle"
    /\ session # 0
    /\ closed' = closed \cup {session}
    /\ tpc' = [tpc EXCEPT ![t] = "closing"]
    /\ tsess' = [tsess EXCEPT ![t] = session]
    /\ UNCHANGED <<dtoVars, objVars, apiVars, client, maxc, session, semaphore, permits, created, staleLoop,
                   tverb, tsem, attempts, syncVars, last>>

\* AsyncActiveTrailClient.close(), after the await: self.session = None.
closeEnd(t) ==
    /\ tpc[t] = "closing"
    /\ session' = 0
    /\ tpc' = [tpc EXCEPT ![t] = "idle"]
    /\ tsess' = [tsess EXCEPT ![t] = 0]
    /\ UNCHANGED <<dtoVars, objVars, apiVars, client, maxc, closed, semaphore, permits, created, staleLoop,
                   tverb, tsem, attempts, syncVars, last>>

\* ------------------------------------------------ ActiveTrailClient.request

\* The body of an error response: request() reads it as JSON, else as text.
Bodies == {"json", "text"}

\* ActiveTrailClient.request(method, ...): an unsupported method raises
\* ValueError inside the try block, which no except clause catches; a
\* supported one is sent over the requests session.
request(m) ==
    /\ client = "ActiveTrailClient"
    /\ spc = "idle"
    /\ tpc[1] = "idle"
    /\ IF m \in Verbs
       THEN /\ spc' = "sent"
            /\ smethod' = m
            /\ sattempts' = 1
            /\ last' = last
       ELSE /\ last' = Ended("request", m, NoOutcome, "none", "ValueError", 0)
            /\ UNCHANGED syncVars
    /\ UNCHANGED <<dtoVars, objVars, apiVars, client, asyncVars>>

\* The attempt of request() ends with outcome o (an error response carrying
\* a JSON or a text body, or a response that is let through and carries one
\* of Contents): raise_for_status, the return statements and the except
\* clauses.
requestEnds(o, body) ==
    /\ spc = "sent"
    /\ \/ o.cause = "response" /\ RaisesForStatus(o.status) /\ body \in Bodies
       \/ o.cause = "response" /\ ~RaisesForStatus(o.status) /\ body \in Contents
       \/ o.cause # "response" /\ body = "json"
    /\ IF SyncShouldRetry(o, sattempts)
       THEN /\ sattempts' = sattempts + 1
            /\ UNCHANGED <<spc, smethod, last>>
       ELSE /\ last' = Ended("request", smethod, o, body, SyncRaised(o), sattempts)
            /\ spc' = "idle"
            /\ smethod' = "none"
            /\ sattempts' = 0
    /\ UNCHANGED <<dtoVars, objVars, apiVars, client, asyncVars>>

\* ------------------------------------------ the ActiveTrailClient object

\* The api_key and timeout arguments of the constructors.
ApiKeys == {"key-1", "key-2"}

Timeouts == {30, 60}

\* The resource-module attributes an application reads from a client.
HandleNames == {"contacts", "campaigns", "messages", "webhooks", "sms_campaigns", "groups"}

\* The attributes ActiveTrailClient.__init__ assigns.
InitHandles == {"contacts", "campaigns", "messages", "webhooks"}

\* The class behind each attribute name.
ApiClass(n) ==
    CASE n = "contacts" -> "ContactsAPI"
      [] n = "campaigns" -> "CampaignsAPI"
      [] n = "messages" -> "MessagesAPI"
      [] n = "webhooks" -> "WebhooksAPI"
      [] n = "sms_campaigns" -> "SMSCampaignsAPI"
      [] n = "groups" -> "GroupsAPI"

\* A header value is the sequence of its words.
\* f"Bearer {api_key}", with a scheme in front of the key.
Authorization(k) == <<"Bearer", k>>

\* self.session.headers.update({...}) in ActiveTrailClient.__init__.
SessionHeaders(k) ==
    [h \in {"Content-Type", "Accept", "Authorization"} |->
        IF h = "Authorization" THEN Authorization(k) ELSE <<"application/json">>]

NoHeaders == [h \in {} |-> <<>>]

\* ContactsAPI(self) etc.: the object a constructor call returns.
Module(cls) == [cls |-> cls, client |-> "self"]

NoModule == [cls |-> "none", client |-> "none"]

NoFetch == [name |-> "none", result |-> [kind |-> "none", value |-> NoModule],
            before |-> [kind |-> "none", value |-> NoModule]]

\* client.<n> read by the application between two calls: the attribute
\* __init__ assigned, or AttributeError (the class defines no __getattr__ and
\* no property). `before` keeps what the previous read of the same name gave.
getattr(n) ==
    /\ client = "ActiveTrailClient"
    /\ tpc[1] = "idle"
    /\ spc = "idle"
    /\ fetched' =
           [name |-> n,
            result |-> IF n \in DOMAIN handles
                       THEN [kind |-> "returned", value |-> handles[n]]
                       ELSE [kind |-> "raised", value |-> Module("AttributeError")],
            before |-> IF fetched.name = n THEN fetched.result ELSE NoFetch.before]
    /\ UNCHANGED <<clientVars, apiVars, dtoVars, ctor, api_key, timeout, headers, handles,
                   constructions>>

\* ------------------------------------------------------- resource modules
\* The resource modules hold a client and call its get/post/put/delete/request.
\* Here the client is any object with these methods: a call of it returns a
\* value or raises.

\* What a client call can return: decoded JSON (a mapping, a list, a number),
\* text (async client) or bytes (request()).
ClientValues == {"mapping", "list", "number", "text", "bytes"}

\* What a client call can raise.
ClientErrors == {"ActiveTrailError", "AuthenticationError", "RateLimitError", "TimeoutError"}

NoInput == [shape |-> "none"]

NoResult == [kind |-> "none", value |-> "none"]

Returned(v) == [kind |-> "returned", value |-> v]

Raised(e) == [kind |-> "raised", value |-> e]

\* ---- inputs of the SMS campaign operations

\* Largest number of entries in the mobiles list of an operational message.
MaxMobiles == 2

\* from_name must be "up to 11 English letters"
FromNameMax == 11

\* Lengths of from_name strings: empty, shortest, the limit, beyond the limit.
NameLens == {0, 1, FromNameMax, FromNameMax + 1}

\* An Optional[str] from_name: None, or a string of which the model keeps the
\* length, whether str.isalpha() holds (every character a Unicode letter, and
\* at least one character) and whether every character is an English letter.
FromNames ==
    {n \in [none : BOOLEAN, len : NameLens, alpha : BOOLEAN, english : BOOLEAN] :
        /\ n.none => (n.len = 0 /\ ~n.alpha /\ ~n.english)
        /\ n.len = 0 => (~n.alpha /\ ~n.english)
        /\ n.english => n.alpha}

\* An Optional[int]: None, 0, or an integer other than 0.
OptInts == {"None", "zero", "nonzero"}

\* Python truth value of an Optional[int] and of an Optional[str].
TruthyInt(i) == i = "nonzero"

TruthyStr(n) == ~n.none /\ n.len > 0

\* SMSCampaignDTO.validate_from_name / ApiSMSCampaignDetailsDTO.validate_from_name:
\* TRUE when the value is accepted.
validate_from_name(v) == v.none \/ (v.alpha /\ v.len <= FromNameMax)

\* A validate_sender_info that never raises.
SenderNotChecked(c) == TRUE

\* A validate_sender_info that wants one of the two and not the other.
SenderExclusive(c) == TruthyStr(c.from_name) # TruthyInt(c.sms_sending_profile_id)

\* SMSCampaignDTO.validate_sender_info: TRUE when the campaign is accepted.
validate_sender_info(c) == TruthyStr(c.from_name) \/ TruthyInt(c.sms_sending_profile_id)

\* SMSCampaignDTO(**data): the required fields are present and well typed
\* and both validators accept.
SMSCampaignDTO(c) ==
    /\ c.required
    /\ validate_from_name(c.from_name)
    /\ validate_sender_info(c)

\* ApiSMSCampaignDetailsDTO(**data): name and content are required; its two
\* validators are copies of those of SMSCampaignDTO.
ApiSMSCampaignDetailsDTO(d) ==
    /\ d.required
    /\ validate_from_name(d.from_name)
    /\ validate_sender_info(d)

\* A phone_number entry of mobiles: starts with '+', does not, or is absent.
Phones == {"plus", "noplus", "missing"}

\* ApiSMSMobileDTO(**data): phone_number is required, and
\* validate_phone_number wants it non-empty and starting with '+'.
ApiSMSMobileDTO(m) == m.phone_number = "plus"

MobileLists(S) == UNION {[1..n -> S] : n \in 0..MaxMobiles}

\* A validate_mobiles that looks at the first entry only.
ValidateFirstMobileOnly(msg) ==
    /\ Len(msg.mobiles) > 0
    /\ msg.mobilesKind = "dict" => msg.mobiles[1] = "plus"

\* SMSOperationalMessageDTO.validate_mobiles: TRUE when the message is accepted.
\* The entries are checked only when they are raw mappings.
validate_mobiles(msg) ==
    /\ Len(msg.mobiles) > 0
    /\ msg.mobilesKind = "dict" =>
           \A i \in 1..Len(msg.mobiles) : msg.mobiles[i] = "plus"

\* SMSOperationalMessageDTO(**data): details and scheduling are declared
\* Union[Dict[str, Any], <DTO>], so a raw mapping is accepted as it is,
\* whether or not it satisfies the nested DTO's rules.
SMSOperationalMessageDTO(msg) ==
    /\ msg.required
    /\ validate_mobiles(msg)

\* What create/update are given: a raw mapping, an SMSCampaignDTO (which was
\* validated when it was constructed), or something else.
CampaignInputs ==
    {c \in [shape : {"dict", "dto"}, required : BOOLEAN, from_name : FromNames,
            sms_sending_profile_id : OptInts, id : OptInts] :
        c.shape = "dto" => SMSCampaignDTO(c)}
    \cup {[shape |-> "other"]}

\* What send_operational_message/update_operational_message are given.
\* "mapping_bad" is a raw mapping that breaks the nested DTO's rules.
NestedKinds == {"mapping_ok", "mapping_bad", "dto"}

MessageInputs ==
    {msg \in [shape : {"dict", "dto"}, required : BOOLEAN, mobilesKind : {"dict", "dto"},
              mobiles : MobileLists(Phones), details : NestedKinds, scheduling : NestedKinds] :
        /\ msg.mobilesKind = "dto" =>
               \A i \in 1..Len(msg.mobiles) : ApiSMSMobileDTO([phone_number |-> msg.mobiles[i]])
        /\ msg.shape = "dto" => SMSOperationalMessageDTO(msg)}
    \cup {[shape |-> "other"]}

CampaignOps == {"SMSCampaignsAPI.create", "SMSCampaignsAPI.update"}

MessageOps ==
    {"SMSCampaignsAPI.send_operational_message", "SMSCampaignsAPI.update_operational_message"}

\* model_class(**data): TRUE when the model is constructed, FALSE when
\* pydantic raises ValidationError.
Construct(model_class, data) ==
    IF model_class = "SMSCampaignDTO" THEN SMSCampaignDTO(data)
    ELSE IF model_class = "ApiSMSCampaignDetailsDTO" THEN ApiSMSCampaignDetailsDTO(data)
    ELSE IF model_class = "ApiSMSMobileDTO" THEN ApiSMSMobileDTO(data)
    ELSE SMSOperationalMessageDTO(data)

\* SMSCampaignsAPI._validate_and_convert: the exception it raises ("none":
\* it returns the mapping to send).
ValidateAndConvert(data, model_class) ==
    IF data.shape = "dict"
    THEN IF Construct(model_class, data) THEN "none" ELSE "pydantic.ValidationError"
    ELSE IF data.shape = "dto" THEN "none"
    ELSE "TypeError"

\* The exception an SMS operation raises before it calls the client ("none":
\* it goes on to the call). update reads campaign_data.get('id') from the
\* validated mapping, in which an id of None is absent.
PreCallError(op, data) ==
    IF op \in CampaignOps
    THEN LET e == ValidateAndConvert(data, "SMSCampaignDTO")
         IN IF e # "none" THEN e
            ELSE IF op = "SMSCampaignsAPI.update" /\ ~TruthyInt(data.id)
                 THEN "ValueError"
                 ELSE "none"
    ELSE ValidateAndConvert(data, "SMSOperationalMessageDTO")

\* An update that calls client.put before it looks at what validation said.
ValidatesFirstExceptUpdate(op) == op # "SMSCampaignsAPI.update"

\* Every SMS operation validates (and, for update, checks the id) before the
\* statement that calls the client.
ValidatesFirst(op) == TRUE

\* The verb of the client call of an SMS operation.
SmsVerb(op) ==
    IF op \in {"SMSCampaignsAPI.create", "SMSCampaignsAPI.send_operational_message"}
    THEN "POST" ELSE "PUT"

\* get_campaigns and get_campaign: a GET without validation of any input.
SmsReadOps == {"SMSCampaignsAPI.get_campaigns", "SMSCampaignsAPI.get_campaign"}

\* create and send_operational_message log response.get('id') after the
\* call, get_campaigns response.get('total_items', 0) and get_campaign
\* response.get('name'): a response that is not a mapping has no get().
ReadsResponseId(op) ==
    op \in {"SMSCampaignsAPI.create", "SMSCampaignsAPI.send_operational_message"}
              \cup SmsReadOps

SmsOps == CampaignOps \cup MessageOps

\* SMSCampaignsAPI.create/update/send_operational_message/
\* update_operational_message, up to the client call.
smsBegin(op, data) ==
    /\ rpc = "idle"
    /\ rop' = op
    /\ rinput' = data
    /\ ridx' = 0
    /\ rerror' = "none"
    /\ IF ValidatesFirst(op) /\ PreCallError(op, data) # "none"
       THEN /\ rpc' = "done"
            /\ rcalls' = <<>>
            /\ rresult' = Raised(PreCallError(op, data))
       ELSE /\ rpc' = "calling"
            /\ rcalls' = <<[verb |-> SmsVerb(op), item |-> 0]>>
            /\ rresult' = NoResult
    /\ UNCHANGED <<clientVars, dtoVars, objVars>>

\* SMSCampaignsAPI.get_campaigns/get_campaign, up to the client call.
smsGetBegin(op) ==
    /\ rpc = "idle"
    /\ rop' = op
    /\ rinput' = NoInput
    /\ ridx' = 0
    /\ rerror' = "none"
    /\ rpc' = "calling"
    /\ rcalls' = <<[verb |-> "GET", item |-> 0]>>
    /\ rresult' = NoResult
    /\ UNCHANGED <<clientVars, dtoVars, objVars>>

\* The client call of an SMS operation returns value v.
smsReturns(v) ==
    /\ rpc = "calling"
    /\ rop \in SmsOps \cup SmsReadOps
    /\ rpc' = "done"
    /\ rresult' = IF ~ValidatesFirst(rop) /\ PreCallError(rop, rinput) # "none"
                  THEN Raised(PreCallError(rop, rinput))
                  ELSE IF ReadsResponseId(rop) /\ v # "mapping"
                  THEN Raised("AttributeError")
                  ELSE Returned(v)
    /\ UNCHANGED <<rop, rinput, ridx, rcalls, rerror, clientVars, dtoVars, objVars>>

\* ---- the caller constructs a DTO

\* The pydantic classes with validators that the SMS operations take or nest.
ModelClasses ==
    {"SMSCampaignDTO", "ApiSMSCampaignDetailsDTO", "ApiSMSMobileDTO", "SMSOperationalMessageDTO"}

\* The keyword arguments given to the constructor of a class.
ConstructorInputs(model_class) ==
    IF model_class = "SMSCampaignDTO" THEN {c \in CampaignInputs : c.shape = "dict"}
    ELSE IF model_class = "ApiSMSCampaignDetailsDTO"
    THEN [shape : {"dict"}, required : BOOLEAN, from_name : FromNames,
          sms_sending_profile_id : OptInts]
    ELSE IF model_class = "ApiSMSMobileDTO" THEN [shape : {"dict"}, phone_number : Phones]
    ELSE {msg \in MessageInputs : msg.shape = "dict"}

\* model_class(**data) called by the application: it gets the object, or
\* pydantic's ValidationError. No client is involved.
constructDTO(model_class, data) ==
    /\ rpc = "idle"
    /\ rop' = model_class
    /\ rinput' = data
    /\ ridx' = 0
    /\ rerror' = "none"
    /\ rcalls' = <<>>
    /\ rpc' = "done"
    /\ rresult' = IF Construct(model_class, data)
                  THEN Returned("dto")
                  ELSE Raised("pydantic.ValidationError")
    /\ UNCHANGED <<clientVars, dtoVars, objVars>>

\* ---- operations that hand the client's answer through

\* One operation of each resource module whose body is a single
\* `return self.client.<verb>(...)`, with the verb it uses.
PassThroughOps ==
    {"ContactsAPI.get", "ContactsAPI.create", "GroupsAPI.delete", "GroupsAPI.add_contact",
     "CampaignsAPI.get_campaign", "MessagesAPI.send_sms", "WebhooksAPI.delete_webhook",
     "SMSCampaignsAPI.get_estimate"}

PassThroughVerb(op) ==
    IF op \in {"ContactsAPI.create", "GroupsAPI.add_contact", "MessagesAPI.send_sms"}
    THEN "POST"
    ELSE IF op \in {"GroupsAPI.delete", "WebhooksAPI.delete_webhook"} THEN "DELETE"
    ELSE "GET"

\* ---- CrudAPI.list / NestedResourceAPI.list

ListOps == {"CrudAPI.list", "NestedResourceAPI.list"}

\* The limit and offset arguments: left out, or given.
ListLimits == {"omitted", "10", "0"}

ListOffsets == {"omitted", "5"}

\* The names of the extra keyword arguments (**kwargs); each has the value "x".
FilterKeys == {"status", "email"}

\* The path of the GET, as the parts the f-string joins with '/'.
ListPath(op) ==
    IF op = "CrudAPI.list" THEN <<"resource_path">>
    ELSE <<"parent_path", "parent_id", "resource_path">>

\* A params that leaves the extra filters out.
ListParamsWithoutFilters(limit, offset, filters) ==
    [limit |-> IF limit = "omitted" THEN "100" ELSE limit,
     offset |-> IF offset = "omitted" THEN "0" ELSE offset]

\* params = {"limit": limit, "offset": offset, **kwargs}, with the defaults
\* limit=100 and offset=0 of the signature.
ListParams(limit, offset, filters) ==
    [k \in {"limit", "offset"} \cup filters |->
        IF k = "limit" THEN (IF limit = "omitted" THEN "100" ELSE limit)
        ELSE IF k = "offset" THEN (IF offset = "omitted" THEN "0" ELSE offset)
        ELSE "x"]

\* list(...), up to the client call.
listBegin(op, limit, offset, filters) ==
    /\ rpc = "idle"
    /\ rop' = op
    /\ rinput' = [shape |-> "arguments", limit |-> limit, offset |-> offset, filters |-> filters]
    /\ ridx' = 0
    /\ rerror' = "none"
    /\ rpc' = "calling"
    /\ rcalls' = <<[verb |-> "GET", item |-> 0, path |-> ListPath(op),
                    params |-> ListParams(limit, offset, filters), answer |-> "pending"]>>
    /\ rresult' = NoResult
    /\ UNCHANGED <<clientVars, dtoVars, objVars>>

\* client.get returns v (kept with the call), and list returns it.
listReturns(v) ==
    /\ rpc = "calling"
    /\ rop \in ListOps
    /\ rpc' = "done"
    /\ rcalls' = [rcalls EXCEPT ![1].answer = v]
    /\ rresult' = Returned(v)
    /\ UNCHANGED <<rop, rinput, ridx, rerror, clientVars, dtoVars, objVars>>

\* ---- GroupsAPI.add_multiple_contacts / remove_multiple_contacts

\* Largest number of contacts given to a batch operation.
MaxContacts == 2

BatchOps == {"GroupsAPI.add_multiple_contacts", "GroupsAPI.remove_multiple_contacts"}

\* A contact mapping has the key the loop reads (contact["sms"], contact["id"])
\* or lacks it (KeyError).
ContactLists == UNION {[1..n -> {"ok", "nokey"}] : n \in 0..MaxContacts}

\* A batch operation that takes a contact out again, whichever it is.
BatchVerbDelete(op) == "DELETE"

BatchVerb(op) == IF op = "GroupsAPI.add_multiple_contacts" THEN "POST" ELSE "DELETE"

\* A CatchesErrors under which every operation swallows what the client raises.
CatchesEverywhere(op) == TRUE

\* The operations whose body is wrapped in `try: ... except Exception: return False`.
CatchesErrors(op) == op \in BatchOps

\* The loop of a batch operation from position i on, up to the next client
\* call: past the end it returns True; a contact without the key raises
\* KeyError, which the except clause turns into False; otherwise
\* add_contact / remove_contact_from_group calls the client.
BatchAdvance(op, contacts, i, calls) ==
    IF i > Len(contacts)
    THEN /\ rpc' = "done"
         /\ ridx' = i
         /\ rcalls' = calls
         /\ rresult' = Returned("True")
    ELSE IF contacts[i] = "nokey"
    THEN /\ rpc' = "done"
         /\ ridx' = i
         /\ rcalls' = calls
         /\ rresult' = Returned("False")
    ELSE /\ rpc' = "calling"
         /\ ridx' = i
         /\ rcalls' = Append(calls, [verb |-> BatchVerb(op), item |-> i])
         /\ rresult' = NoResult

batchBegin(op, contacts) ==
    /\ rpc = "idle"
    /\ rop' = op
    /\ rinput' = [shape |-> "list", contacts |-> contacts]
    /\ rerror' = "none"
    /\ BatchAdvance(op, contacts, 1, <<>>)
    /\ UNCHANGED <<clientVars, dtoVars, objVars>>

\* The client call for contact ridx returns: the loop goes on.
batchReturns(v) ==
    /\ rpc = "calling"
    /\ rop \in BatchOps
    /\ BatchAdvance(rop, rinput.contacts, ridx + 1, rcalls)
    /\ UNCHANGED <<rop, rinput, rerror, clientVars, dtoVars, objVars>>

passBegin(op) ==
    /\ rpc = "idle"
    /\ rop' = op
    /\ rinput' = NoInput
    /\ ridx' = 0
    /\ rerror' = "none"
    /\ rpc' = "calling"
    /\ rcalls' = <<[verb |-> PassThroughVerb(op), item |-> 0]>>
    /\ rresult' = NoResult
    /\ UNCHANGED <<clientVars, dtoVars, objVars>>

passReturns(v) ==
    /\ rpc = "calling"
    /\ rop \in PassThroughOps
    /\ rpc' = "done"
    /\ rresult' = Returned(v)
    /\ UNCHANGED <<rop, rinput, ridx, rcalls, rerror, clientVars, dtoVars, objVars>>

\* The client call of the operation in progress raises e: the operation
\* lets it through, or catches it and returns False.
clientRaises(e) ==
    /\ rpc = "calling"
    /\ rpc' = "done"
    /\ rerror' = e
    /\ rresult' = IF CatchesErrors(rop) THEN Returned("False") ELSE Raised(e)
    /\ UNCHANGED <<rop, rinput, ridx, rcalls, clientVars, dtoVars, objVars>>

\* The caller goes on to its next operation.
nextOperation ==
    /\ rpc = "done"
    /\ rpc' = "idle"
    /\ rop' = "none"
    /\ rinput' = NoInput
    /\ ridx' = 0
    /\ rcalls' = <<>>
    /\ rerror' = "none"
    /\ rresult' = NoResult
    /\ UNCHANGED <<clientVars, dtoVars, objVars>>

\* -------------------------------------------------------------------- DTOs
\* The DTO classes and their to_dict / from_dict. Two generations of BaseDTO
\* exist: the dataclass one of dto/base.py (contacts, groups) and the pydantic
\* one of dto/sms_campaigns.py; GroupAddContactDTO is a plain class.

\* Python values. A scalar keeps its type and its text; isoformat() turns a
\* datetime into the str with the same text.
PyNone == [t |-> "NoneType", v |-> "None"]

PyStr(text) == [t |-> "str", v |-> text]

PyInt(text) == [t |-> "int", v |-> text]

PyBool(text) == [t |-> "bool", v |-> text]

PyDatetime(text) == [t |-> "datetime", v |-> text]

PyList(items) == [t |-> "list", items |-> items]

PyDict(f) == [t |-> "dict", f |-> f]

PyObject(cls, f) == [t |-> "object", cls |-> cls, f |-> f]

PyException(cls) == [t |-> "exception", v |-> cls]

isoformat(d) == PyStr(d.v)

DataclassDTOs == {"ContactDTO", "GroupDTO", "GroupResponseDTO", "ContactActivityDTO"}

PydanticDTOs == {"ApiSmsCampaignSegment", "SMSCampaignSchedulingDTO", "SMSCampaignDTO"}

PlainDTOs == {"GroupAddContactDTO"}

DTOClasses == DataclassDTOs \cup PydanticDTOs \cup PlainDTOs

\* The declared fields of a class, with their types.
FieldTypes(cls) ==
    CASE cls = "ContactDTO" ->
             [k \in {"email", "first_name", "last_name", "phone", "mobile_phone", "address", "city",
              "state", "zip_code", "country", "company", "birthday", "custom_fields"} |->
                 IF k = "custom_fields" THEN "Dict[str, Any]" ELSE "str"]
      [] cls = "GroupDTO" ->
             [name |-> "str", description |-> "str", group_id |-> "int"]
      [] cls = "GroupResponseDTO" ->
             [id |-> "int", name |-> "str", description |-> "str", contact_count |-> "int",
              created_at |-> "str", updated_at |-> "str"]
      [] cls = "ContactActivityDTO" ->
             [k \in {"activity_id", "contact_id", "activity_type", "activity_time", "campaign_id",
              "campaign_name", "subject", "ip", "operating_system", "browser", "url",
              "message_id"} |->
                 IF k \in {"activity_id", "contact_id", "campaign_id"} THEN "int" ELSE "str"]
      [] cls = "GroupAddContactDTO" ->
             [k \in {"group_id", "sms", "first_name", "last_name", "status", "sms_status",
              "campaign_id", "subscribe_ip", "double_optin", "is_deleted"} |->
                 IF k \in {"group_id", "campaign_id"} THEN "int"
                 ELSE IF k = "double_optin" THEN "Dict[str, str]"
                 ELSE IF k = "is_deleted" THEN "bool"
                 ELSE "str"]
      [] cls = "ApiSmsCampaignSegment" ->
             [k \in {"group_ids", "restricated_group_ids", "restricated_campaign_ids",
              "mailing_list_id", "limit_amount", "sms_sending_profile_id"} |->
                 IF k \in {"mailing_list_id", "limit_amount", "sms_sending_profile_id"}
                 THEN "int" ELSE "List[int]"]
      [] cls = "SMSCampaignSchedulingDTO" ->
             [scheduled_date |-> "datetime", scheduled_time_zone |-> "str", is_sent |-> "bool"]
      [] cls = "SMSCampaignDTO" ->
             [name |-> "str", content |-> "str", unsubscribe_text |-> "str",
              segment |-> "Union[Dict, ApiSmsCampaignSegment]",
              scheduling |-> "Union[Dict, SMSCampaignSchedulingDTO]",
              from_name |-> "str", can_unsubscribe |-> "bool", is_link_tracking |-> "bool",
              sms_sending_profile_id |-> "int", id |-> "int"]

Fields(cls) == DOMAIN FieldTypes(cls)

\* The fields without a default value.
RequiredFields(cls) ==
    CASE cls = "ContactDTO" -> {"email"}
      [] cls = "GroupDTO" -> {"name"}
      [] cls = "GroupResponseDTO" -> {"id", "name"}
      [] cls = "ContactActivityDTO" ->
             {"activity_id", "contact_id", "activity_type", "activity_time"}
      [] cls = "GroupAddContactDTO" -> {"group_id", "sms"}
      [] cls = "ApiSmsCampaignSegment" -> {}
      [] cls = "SMSCampaignSchedulingDTO" -> {"scheduled_date"}
      [] cls = "SMSCampaignDTO" ->
             {"name", "content", "unsubscribe_text", "segment", "scheduling"}

\* The default of a field that has one: None, but for the scheduling DTO.
Default(cls, k) ==
    IF cls = "SMSCampaignSchedulingDTO" /\ k = "scheduled_time_zone" THEN PyStr("Israel")
    ELSE IF cls = "SMSCampaignSchedulingDTO" /\ k = "is_sent" THEN PyBool("False")
    ELSE PyNone

\* _api_field_mapping of a class: Python field name -> wire name.
api_field_mapping(cls) ==
    CASE cls = "ContactDTO" ->
             [first_name |-> "firstName", last_name |-> "lastName",
              mobile_phone |-> "mobilePhone", zip_code |-> "zip",
              custom_fields |-> "customFields"]
      [] cls = "GroupDTO" -> [group_id |-> "id"]
      [] cls = "GroupResponseDTO" ->
             [contact_count |-> "contactCount", created_at |-> "createdAt",
              updated_at |-> "updatedAt"]
      [] cls = "ContactActivityDTO" ->
             [activity_id |-> "activityId", contact_id |-> "contactId",
              activity_type |-> "activityType", activity_time |-> "activityTime",
              campaign_id |-> "campaignId", campaign_name |-> "campaignName",
              operating_system |-> "operatingSystem", message_id |-> "messageId"]
      [] cls = "ApiSmsCampaignSegment" ->
             [group_ids |-> "groupIds", restricated_group_ids |-> "restricatedGroupIds",
              restricated_campaign_ids |-> "restricatedCampaignIds",
              mailing_list_id |-> "mailingListId", limit_amount |-> "limitAmount",
              sms_sending_profile_id |-> "smsSendingProfileId"]
      [] cls = "SMSCampaignSchedulingDTO" ->
             [scheduled_date |-> "scheduledDate", scheduled_time_zone |-> "scheduledTimeZone",
              is_sent |-> "isSent"]
      [] cls = "SMSCampaignDTO" ->
             [from_name |-> "fromName", unsubscribe_text |-> "unsubscribeText",
              can_unsubscribe |-> "canUnsubscribe", is_link_tracking |-> "isLinkTracking",
              sms_sending_profile_id |-> "smsSendingProfileId"]
      [] OTHER -> [k \in {} |-> ""]

\* An _optional_fields under which no class marks any field.
NoOptionalFields(cls) == {}

\* _optional_fields of a class (the dataclass generation reads it).
optional_fields(cls) ==
    CASE cls = "ContactDTO" ->
             {"first_name", "last_name", "phone", "mobile_phone", "address", "city", "state",
              "zip_code", "country", "company", "birthday", "custom_fields"}
      [] cls = "GroupDTO" -> {"description", "group_id"}
      [] OTHER -> {}

\* ---- instances

\* Largest number of fields with a default that an instance is given.
MaxSupplied == 2

Timestamp == "2030-01-01T09:00:00"

\* Two ways to fill the fields that take more than scalars. "plain": the
\* values of a mapping are strings, segment and scheduling are raw mappings.
\* "rich": a mapping holds a datetime, segment and scheduling are DTO objects.
Alts == {"plain", "rich"}

RECURSIVE Make(_, _, _)

\* A value of a declared type.
Sample(type, alt) ==
    CASE type = "str" -> PyStr("text")
      [] type = "int" -> PyInt("7")
      [] type = "bool" -> PyBool("True")
      [] type = "datetime" -> PyDatetime(Timestamp)
      [] type = "List[int]" -> PyList(<<PyInt("7")>>)
      [] type = "Dict[str, str]" -> PyDict([key |-> PyStr("text")])
      [] type = "Dict[str, Any]" ->
             IF alt = "plain" THEN PyDict([key |-> PyStr("text")])
             ELSE PyDict([key |-> PyDatetime(Timestamp)])
      [] type = "Union[Dict, ApiSmsCampaignSegment]" ->
             IF alt = "plain" THEN PyDict([groupIds |-> PyList(<<PyInt("7")>>)])
             ELSE Make("ApiSmsCampaignSegment", {"group_ids"}, alt)
      [] type = "Union[Dict, SMSCampaignSchedulingDTO]" ->
             IF alt = "plain" THEN PyDict([scheduledDate |-> PyStr(Timestamp)])
             ELSE Make("SMSCampaignSchedulingDTO", {}, alt)

\* cls(...) given its required fields and the fields in supplied; the other
\* fields take their defaults.
Make(cls, supplied, alt) ==
    PyObject(cls, [k \in Fields(cls) |->
                      IF k \in RequiredFields(cls) \cup supplied
                      THEN Sample(FieldTypes(cls)[k], alt)
                      ELSE Default(cls, k)])

\* The validators that run when an object is constructed: SMSCampaignDTO
\* wants a sender; the dataclasses and the plain class check nothing.
Validates(x) ==
    x.cls = "SMSCampaignDTO" =>
        validate_sender_info(
            [from_name |-> [none |-> x.f["from_name"] = PyNone, len |-> 4,
                            alpha |-> TRUE, english |-> TRUE],
             sms_sending_profile_id |->
                 IF x.f["sms_sending_profile_id"] = PyNone THEN "None" ELSE "nonzero"])

\* The objects of a class that can exist.
Instances(cls) ==
    {x \in {Make(cls, supplied, alt) :
               supplied \in {S \in SUBSET (Fields(cls) \ RequiredFields(cls)) :
                                Cardinality(S) <= MaxSupplied},
               alt \in Alts} :
        Validates(x)}

\* ---- to_dict

\* The wire name of field k of a class.
ApiName(cls, k) ==
    IF k \in DOMAIN api_field_mapping(cls) THEN api_field_mapping(cls)[k] ELSE k

\* The wire name mapping[k] (k itself when the mapping has none) put in place
\* of every key k of f.
Renamed(f, mapping) ==
    LET api(k) == IF k \in DOMAIN mapping THEN mapping[k] ELSE k
    IN [w \in {api(k) : k \in DOMAIN f} |-> f[CHOOSE k \in DOMAIN f : api(k) = w]]

RECURSIVE asdict(_)

\* dataclasses.asdict: a dataclass object becomes a dict keyed by its Python
\* field names, at every depth.
asdict(v) ==
    IF v.t = "object" /\ v.cls \in DataclassDTOs
    THEN PyDict([k \in DOMAIN v.f |-> asdict(v.f[k])])
    ELSE IF v.t = "list" THEN PyList([i \in DOMAIN v.items |-> asdict(v.items[i])])
    ELSE IF v.t = "dict" THEN PyDict([k \in DOMAIN v.f |-> asdict(v.f[k])])
    ELSE v

RECURSIVE model_dump(_)

\* pydantic's model_dump(exclude_none=True): a model becomes a dict keyed by its
\* Python field names, without the fields that are None, at every depth; a
\* datetime stays a datetime.
model_dump(v) ==
    IF v.t = "object"
    THEN PyDict([k \in {j \in DOMAIN v.f : v.f[j] # PyNone} |-> model_dump(v.f[k])])
    ELSE IF v.t = "list" THEN PyList([i \in DOMAIN v.items |-> model_dump(v.items[i])])
    ELSE IF v.t = "dict" THEN PyDict([k \in DOMAIN v.f |-> model_dump(v.f[k])])
    ELSE v

IsBaseDTO(v) == v.t = "object" /\ v.cls \in DataclassDTOs \cup PydanticDTOs

RECURSIVE to_dict(_)

\* dto/base.py to_dict, the branch taken for one value of asdict(self).
ConvertValue(v) ==
    IF v.t = "datetime" THEN isoformat(v)
    ELSE IF IsBaseDTO(v) THEN to_dict(v)
    ELSE IF v.t = "list"
    THEN IF Len(v.items) > 0 /\ \A i \in DOMAIN v.items : IsBaseDTO(v.items[i])
         THEN PyList([i \in DOMAIN v.items |-> to_dict(v.items[i])])
         ELSE IF Len(v.items) > 0 /\ \A i \in DOMAIN v.items : v.items[i].t = "datetime"
         THEN PyList([i \in DOMAIN v.items |-> isoformat(v.items[i])])
         ELSE v
    ELSE IF v.t = "dict"
    THEN PyDict([k \in DOMAIN v.f |->
                    IF v.f[k].t = "datetime" THEN isoformat(v.f[k])
                    ELSE IF IsBaseDTO(v.f[k]) THEN to_dict(v.f[k])
                    ELSE v.f[k]])
    ELSE v

\* dto/sms_campaigns.py to_dict, "Handle nested DTOs", for one value of data.
ConvertNested(v) ==
    IF IsBaseDTO(v) THEN to_dict(v)
    ELSE IF v.t = "list" /\ Len(v.items) > 0 /\ IsBaseDTO(v.items[1])
    THEN PyList([i \in DOMAIN v.items |-> to_dict(v.items[i])])
    ELSE v

\* x.to_dict(), by the class of x.
to_dict(x) ==
    IF x.cls \in DataclassDTOs
    THEN LET data == asdict(x).f
             kept == {k \in DOMAIN data :
                         ~(data[k] = PyNone /\ k \in optional_fields(x.cls))}
         IN PyDict(Renamed([k \in kept |-> ConvertValue(data[k])],
                           api_field_mapping(x.cls)))
    ELSE IF x.cls \in PydanticDTOs
    THEN LET data == Renamed(model_dump(x).f, api_field_mapping(x.cls))
         IN PyDict([w \in DOMAIN data |-> ConvertNested(data[w])])
    ELSE LET present == {"sms"} \cup {k \in DOMAIN x.f \ {"group_id", "sms"} : x.f[k] # PyNone}
         IN PyDict([k \in present |-> x.f[k]])

\* ---- from_dict

\* cls.from_dict(data). Only the dataclass BaseDTO defines it: the keys are
\* mapped back to Python names and handed to cls(**kwargs), which raises
\* TypeError for a keyword that is no field and for a missing required field.
from_dict(cls, data) ==
    IF cls \notin DataclassDTOs THEN Raised(PyException("AttributeError"))
    ELSE LET mapping == api_field_mapping(cls)
             py(w) == IF \E k \in DOMAIN mapping : mapping[k] = w
                      THEN CHOOSE k \in DOMAIN mapping : mapping[k] = w
                      ELSE w
             kwargs == [n \in {py(w) : w \in DOMAIN data.f} |->
                           data.f[CHOOSE w \in DOMAIN data.f : py(w) = n]]
         IN IF ~(DOMAIN kwargs \subseteq Fields(cls)) \/ ~(RequiredFields(cls) \subseteq DOMAIN kwargs)
            THEN Raised(PyException("TypeError"))
            ELSE Returned(PyObject(cls, [k \in Fields(cls) |->
                                           IF k \in DOMAIN kwargs THEN kwargs[k]
                                           ELSE Default(cls, k)]))

\* ---- a DTO is built, serialized, parsed back, posted

NoObject == [t |-> "none", v |-> "none"]

NotYet == [kind |-> "none", value |-> NoObject]

\* The application constructs an object of a DTO class.
dtoNew(x) ==
    /\ dpc = "idle"
    /\ dto' = x
    /\ dpc' = "built"
    /\ UNCHANGED <<wire, given, parsed, posted, clientVars, apiVars, objVars>>

\* dto.to_dict()
dtoToDict ==
    /\ dpc = "built"
    /\ wire' = to_dict(dto)
    /\ dpc' = "serialized"
    /\ UNCHANGED <<dto, given, parsed, posted, clientVars, apiVars, objVars>>

\* What from_dict is given: the mapping to_dict produced, that mapping with a
\* key the class does not know, or that mapping without the key of a field
\* that has a default.
WireVariants == {"as produced", "unknown key", "missing optional"}

WireMappings(cls, w, variant) ==
    IF variant = "as produced" THEN {w}
    ELSE IF variant = "unknown key"
    THEN {PyDict([k \in DOMAIN w.f \cup {"unknown_field"} |->
                     IF k \in DOMAIN w.f THEN w.f[k] ELSE PyStr("text")])}
    ELSE {PyDict([k \in DOMAIN w.f \ {ApiName(cls, d)} |-> w.f[k]]) :
             d \in {j \in Fields(cls) \ RequiredFields(cls) : ApiName(cls, j) \in DOMAIN w.f}}

\* type(dto).from_dict(data)
dtoFromDict(variant) ==
    /\ dpc = "serialized"
    /\ \E data \in WireMappings(dto.cls, wire, variant) :
           /\ given' = data
           /\ parsed' = from_dict(dto.cls, data)
    /\ dpc' = "parsed"
    /\ UNCHANGED <<dto, wire, posted, clientVars, apiVars, objVars>>

\* ContactsAPI.create(contact): a ContactDTO is converted with to_dict, a
\* mapping is taken as it is; the result is the json argument of client.post.
ContactsAPI_create(contact) ==
    /\ dpc \in {"built", "serialized"}
    /\ dto.cls = "ContactDTO"
    /\ contact # NoObject
    /\ posted' = IF contact.t = "object" /\ contact.cls = "ContactDTO"
                 THEN to_dict(contact)
                 ELSE contact
    /\ dpc' = "posted"
    /\ UNCHANGED <<dto, wire, given, parsed, clientVars, apiVars, objVars>>

\* The application drops the object and goes on.
dtoDiscard ==
    /\ dpc \in {"parsed", "posted"}
    /\ dpc' = "idle"
    /\ dto' = NoObject
    /\ wire' = NoObject
    /\ given' = NoObject
    /\ parsed' = NotYet
    /\ posted' = NoObject
    /\ UNCHANGED <<clientVars, apiVars, objVars>>

\* ------------------------------------------------------------- specification

Init ==
    /\ client \in {"AsyncActiveTrailClient", "ActiveTrailClient"}
    /\ maxc \in IF client = "AsyncActiveTrailClient"
                THEN 1..MaxConcurrent ELSE {DefaultMaxConcurrent}
    /\ session = 0
    /\ closed = {}
    /\ semaphore = 0
    /\ permits = [g \in Gens |-> 0]
    /\ created = 0
    /\ staleLoop = FALSE
    /\ tpc = [t \in Tasks |-> "idle"]
    /\ tverb = [t \in Tasks |-> "none"]
    /\ tsem = [t \in Tasks |-> 0]
    /\ tsess = [t \in Tasks |-> 0]
    /\ attempts = [t \in Tasks |-> 0]
    /\ spc = "idle"
    /\ smethod = "none"
    /\ sattempts = 0
    /\ last = NoCall
    /\ rop = "none"
    /\ rinput = NoInput
    /\ rpc = "idle"
    /\ ridx = 0
    /\ rcalls = <<>>
    /\ rerror = "none"
    /\ rresult = NoResult
    /\ dpc = "idle"
    /\ dto = NoObject
    /\ wire = NoObject
    /\ given = NoObject
    /\ parsed = NotYet
    /\ posted = NoObject
    /\ ctor \in [api_key : ApiKeys, timeout : Timeouts]
    /\ api_key = ctor.api_key
    /\ timeout = ctor.timeout
    /\ headers = IF client = "ActiveTrailClient" THEN SessionHeaders(ctor.api_key) ELSE NoHeaders
    /\ handles = [n \in IF client = "ActiveTrailClient" THEN InitHandles ELSE {} |->
                      Module(ApiClass(n))]
    /\ constructions = [n \in HandleNames |->
                            IF client = "ActiveTrailClient" /\ n \in InitHandles THEN 1 ELSE 0]
    /\ fetched = NoFetch

\* Sequential use of either client: one call at a time, every verb and method,
\* every outcome of the attempt.
Next ==
    \/ \E v \in Verbs : Call(1, v)
    \/ \E o \in Outcomes : Complete(1, o)
    \/ setup(1)
    \/ closeBegin(1)
    \/ closeEnd(1)
    \/ \E m \in Methods : request(m)
    \/ \E o \in Outcomes, b \in Bodies \cup Contents : requestEnds(o, b)

Spec == Init /\ [][Next]_vars

\* Concurrent use of one AsyncActiveTrailClient by NumTasks coroutines on one
\* event loop, each of which may call a verb, setup() or close() at any time.
\* The gate does not look at the verb, at the outcome or at the arguments the
\* client was constructed with: one verb, one outcome of each kind and one
\* api_key and timeout are enough here.
GateVerbs == {"GET"}

GateOutcomes ==
    {[cause |-> "response", status |-> 200], [cause |-> "response", status |-> 500],
     [cause |-> "connection", status |-> 0]}

InitGate ==
    /\ Init
    /\ client = "AsyncActiveTrailClient"
    /\ ctor = [api_key |-> "key-1", timeout |-> 30]

NextGate ==
    \/ \E t \in Tasks, v \in GateVerbs : Call(t, v)
    \/ \E t \in Tasks : Admit(t)
    \/ \E t \in Tasks, o \in GateOutcomes : Complete(t, o)
    \/ \E t \in Tasks : setup(t)
    \/ \E t \in Tasks : closeBegin(t)
    \/ \E t \in Tasks : closeEnd(t)

SpecGate == InitGate /\ [][NextGate]_vars

\* The same, on an event loop that keeps running: the response (or failure) of
\* every request in flight arrives, and a coroutine waiting on a semaphore
\* that has a permit again and again is woken and admitted (asyncio wakes the
\* waiters of a semaphore in the order they came).
SpecGateLive ==
    /\ SpecGate
    /\ \A t \in Tasks : WF_vars(\E o \in GateOutcomes : Complete(t, o))
    /\ \A t \in Tasks : SF_vars(Admit(t))


\* The resource modules, used for one operation at a time over a client
\* whose calls return or raise (whatever its api_key and timeout).
InitApi ==
    /\ Init
    /\ client = "ActiveTrailClient"
    /\ ctor = [api_key |-> "key-1", timeout |-> 30]

NextApi ==
    \/ \E op \in CampaignOps, c \in CampaignInputs : smsBegin(op, c)
    \/ \E op \in MessageOps, msg \in MessageInputs : smsBegin(op, msg)
    \/ \E op \in SmsReadOps : smsGetBegin(op)
    \/ \E v \in ClientValues : smsReturns(v)
    \/ \E mc \in ModelClasses : \E data \in ConstructorInputs(mc) : constructDTO(mc, data)
    \/ \E op \in PassThroughOps : passBegin(op)
    \/ \E v \in ClientValues : passReturns(v)
    \/ \E op \in ListOps, limit \in ListLimits, offset \in ListOffsets, filters \in SUBSET FilterKeys :
           listBegin(op, limit, offset, filters)
    \/ \E v \in ClientValues : listReturns(v)
    \/ \E op \in BatchOps, cs \in ContactLists : batchBegin(op, cs)
    \/ \E v \in ClientValues : batchReturns(v)
    \/ \E e \in ClientErrors : clientRaises(e)
    \/ nextOperation

SpecApi == InitApi /\ [][NextApi]_vars

\* The DTO classes: objects are constructed, serialized with to_dict, parsed
\* back with from_dict, and contacts are posted.
InitDto ==
    /\ Init
    /\ client = "ActiveTrailClient"
    /\ ctor = [api_key |-> "key-1", timeout |-> 30]

NextDto ==
    \/ \E cls \in DTOClasses : \E x \in Instances(cls) : dtoNew(x)
    \/ dtoToDict
    \/ \E variant \in WireVariants : dtoFromDict(variant)
    \/ ContactsAPI_create(dto)
    \/ ContactsAPI_create(wire)
    \/ dtoDiscard

SpecDto == InitDto /\ [][NextDto]_vars

\* One ActiveTrailClient object: the application reads its attributes and
\* makes calls through both of its dispatch paths. Its fields do not depend
\* on the verb or on how a call ends: one verb and one outcome of each kind.
InitClient == Init /\ client = "ActiveTrailClient"

NextClient ==
    \/ \E n \in HandleNames : getattr(n)
    \/ \E v \in GateVerbs : Call(1, v)
    \/ \E o \in GateOutcomes : Complete(1, o)
    \/ \E m \in GateVerbs : request(m)
    \/ \E o \in GateOutcomes : requestEnds(o, "json")

SpecClient == InitClient /\ [][NextClient]_vars

\* ------------------------------------------------------------------- claims

\* C2: every call of a transport operation (request and get/post/put/delete
\* of ActiveTrailClient, get/post/put/delete of AsyncActiveTrailClient) issues
\* at most one HTTP request attempt, whatever its outcome: no call in progress
\* and no call that ended has made a second attempt.
C2_SingleAttempt ==
    /\ \A t \in Tasks : attempts[t] <= 1
    /\ sattempts <= 1
    /\ last.attempts <= 1

\* A call of the async client that failed with a connection failure after its
\* one attempt.
C2_Witness ==
    /\ last.path = "async"
    /\ last.cause = "connection"
    /\ last.raised = "ActiveTrailError"
    /\ last.attempts = 1

\* C3: with max_concurrent = N, the number of requests dispatched and not yet
\* completed is at most N in every reachable state, under any interleaving of
\* get/post/put/delete, setup() and close().
C3_InFlightBounded ==
    Cardinality({t \in Tasks : tpc[t] = "inflight"}) <= maxc

\* C4: on either client and for every verb, a call whose response has status
\* 401 raises AuthenticationError and one whose response has status 429 raises
\* RateLimitError.
C4_AuthAndRateLimit ==
    last.cause = "response" =>
        /\ last.status = 401 => last.raised = "AuthenticationError"
        /\ last.status = 429 => last.raised = "RateLimitError"

\* A DELETE through the async client that was answered 429 and raised.
C4_Witness ==
    /\ last.path = "async"
    /\ last.verb = "DELETE"
    /\ last.cause = "response"
    /\ last.status = 429
    /\ last.raised = "RateLimitError"

\* C5: for every verb, a call whose response has status 404 raises NotFoundError.
C5_NotFound ==
    (last.cause = "response" /\ last.status = 404) => last.raised = "NotFoundError"

\* C6: for every verb, a call whose response has a status in 500..599 raises
\* ServerError.
C6_ServerError ==
    (last.cause = "response" /\ last.status >= 500 /\ last.status <= 599)
        => last.raised = "ServerError"

\* C7: for every verb, a call whose response has status 400 raises
\* ValidationError, whether the error body is JSON or plain text.
C7_ValidationError ==
    (last.cause = "response" /\ last.status = 400) => last.raised = "ValidationError"

\* C8: a call that fails with a connection failure (no response received)
\* raises NetworkError.
C8_NetworkError ==
    last.cause = "connection" => last.raised = "NetworkError"

\* C9: a transport call that failed because of a non-2xx status, a connection
\* failure or the expiry of the request timeout surfaces as ActiveTrailError
\* or one of its subclasses, never as another exception type.
C9_TypedErrors ==
    (last.cause \in {"response", "connection", "timeout"} /\ last.raised # "none")
        => last.raised \in ActiveTrailErrors

\* C1: SMSCampaignsAPI.create, update, send_operational_message and
\* update_operational_message, given a raw mapping or a DTO: when the call
\* fails validation (a rule or required field fails, the input has the wrong
\* type, or update lacks the campaign id), the error reaches the caller with
\* no client call issued.
ValidationFailures == {"pydantic.ValidationError", "TypeError", "ValueError"}

C1_ValidationBeforeRequest ==
    (rop \in SmsOps /\ rresult.kind = "raised" /\ rresult.value \in ValidationFailures)
        => rcalls = <<>>

\* update given a valid SMSCampaignDTO without an id: ValueError, no PUT.
C1_Witness ==
    /\ rop = "SMSCampaignsAPI.update"
    /\ rinput.shape = "dto"
    /\ rresult = Raised("ValueError")
    /\ rcalls = <<>>

\* C10 as claimed: no resource-module operation catches an error raised by a
\* client call and ends with a normal return value.
C10_AllErrorsPropagate ==
    (rpc = "done" /\ rerror # "none") => rresult = Raised(rerror)

\* C10 as amended: an error raised by a client call reaches the caller of
\* every operation except GroupsAPI.add_multiple_contacts and
\* remove_multiple_contacts, which catch it and return False.
C10_ErrorsPropagateExceptBatch ==
    (rpc = "done" /\ rerror # "none") =>
        IF rop \in BatchOps THEN rresult = Returned("False") ELSE rresult = Raised(rerror)

\* SMSCampaignsAPI.create whose client call raised: the caller gets the error.
C10_Witness ==
    /\ rop = "SMSCampaignsAPI.create"
    /\ rpc = "done"
    /\ rerror = "RateLimitError"
    /\ rresult = Raised("RateLimitError")

\* C11: a campaign payload with neither from_name nor sms_sending_profile_id
\* fails validation, in SMSCampaignDTO and in ApiSMSCampaignDetailsDTO, and
\* SMSCampaignsAPI.create/update given such a payload end with the validation
\* error and without a client call.
C11_NoSenderRejected ==
    (/\ rop \in CampaignOps \cup {"SMSCampaignDTO", "ApiSMSCampaignDetailsDTO"}
     /\ rinput.shape = "dict"
     /\ rinput.from_name.none
     /\ rinput.sms_sending_profile_id = "None")
        => (/\ rpc = "done"
            /\ rresult = Raised("pydantic.ValidationError")
            /\ rcalls = <<>>)

\* update given a mapping that is complete and has an id, but no sender.
C11_Witness ==
    /\ rop = "SMSCampaignsAPI.update"
    /\ rinput.shape = "dict"
    /\ rinput.required
    /\ rinput.id = "nonzero"
    /\ rinput.from_name.none
    /\ rinput.sms_sending_profile_id = "None"
    /\ rresult = Raised("pydantic.ValidationError")
    /\ rcalls = <<>>

\* C12 as claimed: a campaign is accepted only when exactly one of from_name
\* and sms_sending_profile_id is present.
C12_ExactlyOneSender ==
    (/\ rop \in {"SMSCampaignDTO", "ApiSMSCampaignDetailsDTO"}
     /\ rresult = Returned("dto"))
        => (~rinput.from_name.none) # (rinput.sms_sending_profile_id # "None")

\* C12 as amended: a campaign is accepted only when at least one of the two
\* is present; one with neither is rejected, and one with all required fields,
\* a sender name of 1 to 11 letters and a non-zero sending-profile id is
\* accepted.
C12_AtLeastOneSender ==
    rop \in {"SMSCampaignDTO", "ApiSMSCampaignDetailsDTO"} =>
        /\ rresult = Returned("dto") =>
               (~rinput.from_name.none \/ rinput.sms_sending_profile_id # "None")
        /\ (rinput.from_name.none /\ rinput.sms_sending_profile_id = "None") =>
               rresult = Raised("pydantic.ValidationError")
        /\ (/\ rinput.required
            /\ rinput.from_name.alpha
            /\ rinput.from_name.len \in 1..FromNameMax
            /\ rinput.sms_sending_profile_id = "nonzero") =>
               rresult = Returned("dto")

\* An SMSCampaignDTO constructed with both a sender name and a profile id.
C12_Witness ==
    /\ rop = "SMSCampaignDTO"
    /\ ~rinput.from_name.none
    /\ rinput.sms_sending_profile_id = "nonzero"
    /\ rresult = Returned("dto")

\* C13: an operational message whose mobiles list is empty, or has at any
\* position an entry whose phone number is absent or does not start with '+',
\* is rejected by validation (and send/update_operational_message issue no
\* client call); an ApiSMSMobileDTO with such a phone number is rejected when
\* it is constructed.
C13_BadMobilesRejected ==
    /\ (/\ rop \in MessageOps \cup {"SMSOperationalMessageDTO"}
        /\ rinput.shape \in {"dict", "dto"}
        /\ \/ Len(rinput.mobiles) = 0
           \/ \E i \in 1..Len(rinput.mobiles) : rinput.mobiles[i] # "plus")
           => (/\ rpc = "done"
               /\ rresult = Raised("pydantic.ValidationError")
               /\ rcalls = <<>>)
    /\ (rop = "ApiSMSMobileDTO" /\ rinput.phone_number # "plus")
           => rresult = Raised("pydantic.ValidationError")

\* send_operational_message given a complete mapping whose second mobile has
\* no country-code prefix.
C13_Witness ==
    /\ rop = "SMSCampaignsAPI.send_operational_message"
    /\ rinput.shape = "dict"
    /\ rinput.required
    /\ rinput.mobilesKind = "dict"
    /\ rinput.mobiles = <<"plus", "noplus">>
    /\ rresult = Raised("pydantic.ValidationError")
    /\ rcalls = <<>>

\* C14: a from_name that is not None is accepted if and only if it consists of
\* 1 to 11 English letters (the payload being otherwise complete).
C14_EnglishLettersOnly ==
    (/\ rop \in {"SMSCampaignDTO", "ApiSMSCampaignDetailsDTO"}
     /\ rinput.required
     /\ ~rinput.from_name.none)
        => (rresult = Returned("dto")
               <=> (rinput.from_name.english /\ rinput.from_name.len \in 1..FromNameMax))

\* C15: to_dict of an SMSCampaignDTO whose segment is an ApiSmsCampaignSegment
\* and whose scheduling is an SMSCampaignSchedulingDTO gives nested segment and
\* scheduling mappings keyed by their wire names, and no value of the output,
\* at either level, is a datetime object: the scheduled date is its ISO string.
C15_WireReady ==
    (/\ dpc = "serialized"
     /\ dto.cls = "SMSCampaignDTO"
     /\ dto.f["segment"].t = "object"
     /\ dto.f["scheduling"].t = "object")
        => /\ wire.f["segment"].t = "dict"
           /\ DOMAIN wire.f["segment"].f \subseteq
                  {"groupIds", "restricatedGroupIds", "restricatedCampaignIds",
                   "mailingListId", "limitAmount", "smsSendingProfileId"}
           /\ wire.f["scheduling"].t = "dict"
           /\ DOMAIN wire.f["scheduling"].f = {"scheduledDate", "scheduledTimeZone", "isSent"}
           /\ wire.f["scheduling"].f["scheduledDate"] = PyStr(Timestamp)
           /\ \A k \in DOMAIN wire.f :
                  /\ wire.f[k].t # "datetime"
                  /\ wire.f[k].t = "dict" =>
                         \A j \in DOMAIN wire.f[k].f : wire.f[k].f[j].t # "datetime"

\* C16: for every DTO class and instance, the mapping to_dict returns has no
\* key whose value is None (every None of an instance is a field that was not
\* supplied).
C16_NoNullForUnset ==
    dpc = "serialized" => \A k \in DOMAIN wire.f : wire.f[k] # PyNone

C18_RoundTrip ==
    (dpc = "parsed" /\ given = wire) => parsed = Returned(dto)

\* C19: from_dict given a mapping with a key the schema does not know, or
\* without the key of a field that has a default, returns a DTO and does not
\* raise (for the classes that have from_dict).
C19_FromDictTolerant ==
    (dpc = "parsed" /\ dto.cls \in DataclassDTOs /\ given # wire)
        => parsed.kind = "returned"

C21_JsonOrBytes ==
    (last.cause = "response" /\ last.raised = "none") =>
        last.returned = IF last.body = "json" THEN "decoded json" ELSE "bytes"

\* C22: an ActiveTrailClient has an attribute for each of contacts,
\* campaigns, messages, webhooks, sms_campaigns and groups; the module behind
\* it was constructed exactly once, with the client as its argument; reading
\* the attribute gives that module, and reading it again gives the same one.
C22_HandlesOnce ==
    client = "ActiveTrailClient" =>
        /\ \A n \in {"contacts", "campaigns", "messages", "webhooks", "sms_campaigns", "groups"} :
               /\ n \in DOMAIN handles
               /\ constructions[n] = 1
        /\ fetched.name # "none" =>
               /\ fetched.result.kind = "returned"
               /\ fetched.result.value.client = "self"
               /\ fetched.before.kind # "none" => fetched.result = fetched.before

\* C23: after ActiveTrailClient(api_key=k, timeout=t) the session's
\* Authorization header is k itself, Content-Type and Accept are
\* application/json, client.api_key is k and client.timeout is t, in the state
\* after construction and after every client operation.
C23_HeadersAndFields ==
    client = "ActiveTrailClient" =>
        /\ headers["Authorization"] = <<ctor.api_key>>
        /\ headers["Content-Type"] = <<"application/json">>
        /\ headers["Accept"] = <<"application/json">>
        /\ api_key = ctor.api_key
        /\ timeout = ctor.timeout

\* C24 as claimed: add_multiple_contacts posts the contacts one by one in
\* list order and returns True exactly when every contact was added; when
\* adding the k-th contact fails it returns False having issued requests for
\* exactly the contacts 1..k, none of them a removal; for an empty list it
\* issues no request and returns True.
C24_RequestsUpToFailure ==
    (rop = "GroupsAPI.add_multiple_contacts" /\ rpc = "done") =>
        /\ \A i \in 1..Len(rcalls) : rcalls[i] = [verb |-> "POST", item |-> i]
        /\ rresult \in {Returned("True"), Returned("False")}
        /\ rresult = Returned("True") <=>
               (rerror = "none" /\ Len(rcalls) = Len(rinput.contacts))
        /\ rresult = Returned("False") =>
               (ridx \in 1..Len(rinput.contacts) /\ Len(rcalls) = ridx)
        /\ rinput.contacts = <<>> => (rcalls = <<>> /\ rresult = Returned("True"))

\* C24 as amended: as above, except that the requests issued before False is
\* returned are those for the contacts 1..k when the k-th request failed, and
\* those for the contacts 1..k-1 when the k-th contact has no "sms" key (no
\* request is made for it).
C24_RequestsUpToFailedRequest ==
    (rop = "GroupsAPI.add_multiple_contacts" /\ rpc \in {"calling", "done"}) =>
        /\ \A i \in 1..Len(rcalls) : rcalls[i] = [verb |-> "POST", item |-> i]
        /\ rpc = "done" =>
               /\ rresult \in {Returned("True"), Returned("False")}
               /\ rresult = Returned("True") <=>
                      (rerror = "none" /\ Len(rcalls) = Len(rinput.contacts))
               /\ rresult = Returned("False") =>
                      /\ ridx \in 1..Len(rinput.contacts)
                      /\ \A i \in 1..(ridx - 1) : rinput.contacts[i] = "ok"
                      /\ IF rerror # "none"
                         THEN rinput.contacts[ridx] = "ok" /\ Len(rcalls) = ridx
                         ELSE rinput.contacts[ridx] = "nokey" /\ Len(rcalls) = ridx - 1
               /\ rinput.contacts = <<>> => (rcalls = <<>> /\ rresult = Returned("True"))

\* Two contacts, the second without its "sms" key: one POST, then False.
C24_Witness ==
    /\ rop = "GroupsAPI.add_multiple_contacts"
    /\ rpc = "done"
    /\ rinput.contacts = <<"ok", "nokey">>
    /\ rcalls = <<[verb |-> "POST", item |-> 1]>>
    /\ rerror = "none"
    /\ rresult = Returned("False")

\* C25: send_operational_message and update_operational_message given a raw
\* mapping whose nested details or scheduling mapping breaks a rule of
\* ApiSMSCampaignDetailsDTO / ApiSmsCampaignSchedulingDTO end with a
\* validation error and without a client call, as the construction of these
\* DTOs from the same values does.
C25_NestedMappingsValidated ==
    (/\ rop \in MessageOps
     /\ rinput.shape = "dict"
     /\ (rinput.details = "mapping_bad" \/ rinput.scheduling = "mapping_bad"))
        => (/\ rpc = "done"
            /\ rresult = Raised("pydantic.ValidationError")
            /\ rcalls = <<>>)

\* C26: in any sequence of get/post/put/delete calls on one ActiveTrailClient,
\* every call dispatches on a session (and gate) whose creating event loop is
\* still open: no request is in flight on a session of a closed loop, and no
\* call fails because its session belongs to a closed loop.
C26_SessionLoopOpen ==
    client = "ActiveTrailClient" =>
        /\ \A t \in Tasks : tpc[t] = "inflight" => ~staleLoop
        /\ last.raised # "RuntimeError"

\* C27: under any interleaving of concurrent requests with setup() and
\* close(), at most one session is open at a time, and a request that has
\* passed setup() and is admitted by the gate finds a session that is neither
\* None nor closed to dispatch on: no call ends with the AttributeError of a
\* missing session or the RuntimeError of a closed one.
C27_AdmittedFindsOpenSession ==
    /\ Cardinality({g \in 1..created : g \notin closed}) <= 1
    /\ \A t \in Tasks : tpc[t] = "inflight" => tsess[t] # 0
    /\ last.raised \notin {"AttributeError", "RuntimeError"}

\* C28: every request that took a permit gives it back when it ends, with a
\* decoded response, an exception for an HTTP error status or a transport
\* failure: on every semaphore the permits available and the requests in
\* flight that hold one add up to max_concurrent, so with no request in flight
\* all permits are available; and a request waiting for admission is
\* eventually admitted, given that every request in flight ends.
C28_PermitsReleased ==
    /\ [](\A g \in 1..created :
            permits[g] + Cardinality({t \in Tasks : tpc[t] = "inflight" /\ tsem[t] = g}) = maxc)
    /\ \A t \in Tasks : (tpc[t] = "acquire") ~> (tpc[t] # "acquire")

\* A request that ended with a connection failure, after which no request is
\* in flight or waiting and every permit of the gate is available.
C28_Witness ==
    /\ last.path = "async"
    /\ last.cause = "connection"
    /\ last.raised = "ActiveTrailError"
    /\ \A t \in Tasks : tpc[t] = "idle"
    /\ semaphore # 0
    /\ permits[semaphore] = maxc

\* C29: the two dispatch paths of ActiveTrailClient agree on errors: for every
\* verb and every response status, a call of request() ends as a call of
\* get/post/put/delete answered with that status ends, and the other way
\* round: with the same exception kind, or with none.
C29_PathsAgree ==
    (client = "ActiveTrailClient" /\ last.cause = "response") =>
        LET o == [cause |-> "response", status |-> last.status]
        IN IF last.path = "request"
           THEN last.raised \in AsyncRaised(o)
           ELSE last.raised = SyncRaised(o)

\* client.request("PUT", ...) answered 429: RateLimitError, as client.put
\* raises for 429.
C29_Witness ==
    /\ client = "ActiveTrailClient"
    /\ last.path = "request"
    /\ last.verb = "PUT"
    /\ last.cause = "response"
    /\ last.status = 429
    /\ last.raised = "RateLimitError"

\* C30: in SMSCampaignsAPI.create, send_operational_message, get_campaigns
\* and get_campaign, when the client call returns, the operation returns a
\* value to its caller and does not raise, whatever kind of value the client
\* returned (a mapping, a list, a number, text or bytes).
C30_ReturnsAfterSuccess ==
    (/\ rop \in {"SMSCampaignsAPI.create", "SMSCampaignsAPI.send_operational_message",
                 "SMSCampaignsAPI.get_campaigns", "SMSCampaignsAPI.get_campaign"}
     /\ rpc = "done"
     /\ rcalls # <<>>
     /\ rerror = "none")
        => (rresult.kind = "returned"
            /\ rresult.value \in {"mapping", "list", "number", "text", "bytes"})

====
